---------------------------- MODULE Spec2Model ----------------------------
(***************************************************************************)
(* A model of the sim-to-dec model service (src/model_service):            *)
(*   - module load of sim_inference.py (simulator ensemble, actor),        *)
(*   - the feature provider (fetch_distance_cached with its CSV cache,     *)
(*     get_weather_score, get_fuel_index),                                 *)
(*   - adaptive_weights / compute_reward and the mode loop of infer_live.  *)
(*                                                                         *)
(* Numbers.  The code computes in binary floating point.  The model        *)
(* computes the same expressions in exact rational arithmetic; a rational  *)
(* is a record [n, d] of arbitrary-precision integers (32-bit integers     *)
(* do not hold co2_scale + 1e-6, which needs ten digits).  Rounding        *)
(* error of the floating-point operations is not modelled.                 *)
(***************************************************************************)
EXTENDS Integers, Sequences, FiniteSets, TLC

VARIABLES
    phase,          \* "loading" | "serving" | "exited": module load of sim_inference.py
    ensemble_sims,  \* the simulators loaded so far, each named by its checkpoint
    actor,          \* [n_actions |-> k] once the actor is loaded, n_actions 0 before
    N_MODES,        \* the global N_MODES
    modes,          \* the global mode list
    saved_scaler,   \* which checkpoint's sx/sy mean and scale the globals hold (0: placeholders)
    load_failed,    \* history: a checkpoint or the actor file was missing or failed to load
    mapbox_key,     \* deployment configuration: MAPBOX_API_KEY
    calls,          \* history: infer_live calls begun so far
    cacheFile,      \* models/api_cache.csv: [state, rows], state "absent" (no file),
                    \*   "truncated" (opened for writing, zero bytes) or "written"
    liveDone,       \* history: the row of every call answered by the live lookup,
                    \*   which are the rows completed to_csv calls have put in the file
    req,            \* per worker thread: the infer_live call it is running
    loop            \* per worker thread: the mode loop of infer_live (section 5, step 5)

vars == << phase, ensemble_sims, actor, N_MODES, modes, saved_scaler, load_failed,
           mapbox_key, calls, cacheFile, liveDone, req, loop >>

startupVars == << phase, ensemble_sims, actor, N_MODES, modes, saved_scaler, load_failed >>

configVars == << mapbox_key >>

cacheVars == << cacheFile, liveDone >>

-----------------------------------------------------------------------------
(* Arbitrary-precision naturals: little-endian sequences of limbs in        *)
(* 0..9999, no leading zero limb; zero is the empty sequence.               *)
(* An operand that is used more than once is bound first, in the form       *)
(*   CHOOSE r \in { e(x) : x \in {operand} } : TRUE,                         *)
(* which is e(operand) with the operand evaluated once.                     *)

RECURSIVE NatOfInt(_)
NatOfInt(k) == IF k = 0 THEN << >> ELSE << k % 10000 >> \o NatOfInt(k \div 10000)

RECURSIVE NatStrip(_)
NatStrip(a) ==
    IF a = << >> THEN << >>
    ELSE IF a[Len(a)] = 0 THEN NatStrip(SubSeq(a, 1, Len(a) - 1))
    ELSE a

\* the limbs of x + y + c from limb i on
RECURSIVE AddC(_, _, _, _)
AddC(x, y, i, c) ==
    IF i > Len(x) /\ i > Len(y)
    THEN IF c = 0 THEN << >> ELSE << c >>
    ELSE CHOOSE r \in { << t % 10000 >> \o AddC(x, y, i + 1, t \div 10000) :
                        t \in { (IF i > Len(x) THEN 0 ELSE x[i])
                                + (IF i > Len(y) THEN 0 ELSE y[i]) + c } } : TRUE

NatAdd(a, b) == CHOOSE r \in { AddC(x, y, 1, 0) : x \in {a}, y \in {b} } : TRUE

\* the limbs of x - y - br from limb i on, for x >= y
RECURSIVE SubB(_, _, _, _)
SubB(x, y, i, br) ==
    IF i > Len(x) THEN << >>
    ELSE CHOOSE r \in { << IF t < 0 THEN t + 10000 ELSE t >> \o
                        SubB(x, y, i + 1, IF t < 0 THEN 1 ELSE 0) :
                        t \in { x[i] - (IF i > Len(y) THEN 0 ELSE y[i]) - br } } : TRUE

\* a - b for a >= b
NatSub(a, b) == CHOOSE r \in { NatStrip(d) : d \in { SubB(a, b, 1, 0) } } : TRUE

\* the limbs of x * k + c from limb i on, for a one-limb k
RECURSIVE MulSmall(_, _, _, _)
MulSmall(x, k, i, c) ==
    IF i > Len(x) THEN IF c = 0 THEN << >> ELSE << c >>
    ELSE CHOOSE r \in { << t % 10000 >> \o MulSmall(x, k, i + 1, t \div 10000) :
                        t \in { x[i] * k + c } } : TRUE

\* x * (the limbs of y from limb j on)
RECURSIVE MulFrom(_, _, _)
MulFrom(x, y, j) ==
    IF j > Len(y) THEN << >>
    ELSE CHOOSE r \in { NatAdd(low, IF rest = << >> THEN << >> ELSE << 0 >> \o rest) :
                        low \in { MulSmall(x, y[j], 1, 0) },
                        rest \in { MulFrom(x, y, j + 1) } } : TRUE

NatMul(a, b) ==
    CHOOSE r \in { IF x = << >> THEN << >> ELSE MulFrom(x, y, 1) : x \in {a}, y \in {b} } : TRUE

RECURSIVE CmpFrom(_, _, _)
CmpFrom(a, b, i) ==
    IF i = 0 THEN 0
    ELSE IF a[i] < b[i] THEN -1
    ELSE IF a[i] > b[i] THEN 1
    ELSE CmpFrom(a, b, i - 1)

\* -1, 0, 1 as a < b, a = b, a > b
NatCmp(a, b) ==
    CHOOSE r \in { IF Len(x) < Len(y) THEN -1
                   ELSE IF Len(x) > Len(y) THEN 1
                   ELSE CmpFrom(x, y, Len(x)) : x \in {a}, y \in {b} } : TRUE

(* Signed integers [s, m]: sign s in {-1, 0, 1}, magnitude m a natural. *)
ZOfInt(k) ==
    IF k = 0 THEN [s |-> 0, m |-> << >>]
    ELSE [s |-> IF k < 0 THEN -1 ELSE 1, m |-> NatOfInt(IF k < 0 THEN -k ELSE k)]

ZNeg(a) == CHOOSE r \in { [s |-> -x.s, m |-> x.m] : x \in {a} } : TRUE

ZAdd(a, b) ==
    CHOOSE r \in {
        IF x.s = 0 THEN y
        ELSE IF y.s = 0 THEN x
        ELSE IF x.s = y.s THEN [s |-> x.s, m |-> NatAdd(x.m, y.m)]
        ELSE CHOOSE q \in {
                 IF c = 0 THEN [s |-> 0, m |-> << >>]
                 ELSE [s |-> IF c > 0 THEN x.s ELSE y.s,
                       m |-> NatSub(IF c > 0 THEN x.m ELSE y.m, IF c > 0 THEN y.m ELSE x.m)] :
                 c \in { NatCmp(x.m, y.m) } } : TRUE :
        x \in {a}, y \in {b} } : TRUE

ZMul(a, b) ==
    CHOOSE r \in { IF x.s = 0 \/ y.s = 0 THEN [s |-> 0, m |-> << >>]
                   ELSE [s |-> x.s * y.s, m |-> NatMul(x.m, y.m)] : x \in {a}, y \in {b} } : TRUE

\* the limbs of (r * 10000^i + a[1..i]) \div k, for a one-limb k > 0 and r < k
RECURSIVE DivFrom(_, _, _, _)
DivFrom(a, k, i, r) ==
    IF i = 0 THEN << >>
    ELSE CHOOSE q \in { Append(DivFrom(a, k, i - 1, t % k), t \div k) :
                        t \in { r * 10000 + a[i] } } : TRUE

\* a \div k for a one-limb k > 0
NatDiv(a, k) == CHOOSE r \in { NatStrip(q) : q \in { DivFrom(a, k, Len(a), 0) } } : TRUE

\* << a, b >> with the common factors k (a one-limb number) taken out
RECURSIVE Cancel(_, _)
Cancel(ab, k) ==
    IF ab[1] # << >> /\ ab[1][1] % k = 0 /\ ab[2][1] % k = 0
    THEN CHOOSE r \in { Cancel(q, k) : q \in { << NatDiv(ab[1], k), NatDiv(ab[2], k) >> } } : TRUE
    ELSE ab

\* << a, b >> with the common low zero limbs taken out
RECURSIVE Shift(_)
Shift(ab) ==
    IF ab[1] # << >> /\ ab[1][1] = 0 /\ ab[2][1] = 0
    THEN CHOOSE r \in { Shift(q) : q \in { << Tail(ab[1]), Tail(ab[2]) >> } } : TRUE
    ELSE ab

(* Rationals [n, d]: n signed, d a positive natural.  RatNorm cancels the   *)
(* common factors 2 and 5 (decimal literals produce powers of ten); other   *)
(* common factors are left in, so equality is RatEq, not =.                 *)
RatNorm(n, d) ==
    CHOOSE r \in {
        IF s = 0 THEN [n |-> [s |-> 0, m |-> << >>], d |-> << 1 >>]
        ELSE [n |-> [s |-> s, m |-> ab[1]], d |-> ab[2]] :
        s \in { n.s },
        ab \in { Cancel(s2, 5) : s2 \in { Cancel(s1, 2) : s1 \in { Cancel(s0, 10) :
                    s0 \in { Shift(mm) : mm \in { << n.m, d >> } } } } } } : TRUE

\* the rational p / q of two machine integers, q # 0
Rat(p, q) == RatNorm(ZOfInt(IF q < 0 THEN -p ELSE p), NatOfInt(IF q < 0 THEN -q ELSE q))

RatAdd(a, b) ==
    CHOOSE r \in { RatNorm(ZAdd(ZMul(x.n, [s |-> 1, m |-> y.d]), ZMul(y.n, [s |-> 1, m |-> x.d])),
                           NatMul(x.d, y.d)) : x \in {a}, y \in {b} } : TRUE

RatNeg(a) == CHOOSE r \in { [n |-> ZNeg(x.n), d |-> x.d] : x \in {a} } : TRUE

RatSub(x, y) == RatAdd(x, RatNeg(y))

RatMul(a, b) ==
    CHOOSE r \in { RatNorm(ZMul(x.n, y.n), NatMul(x.d, y.d)) : x \in {a}, y \in {b} } : TRUE

\* x / y for y # 0
RatDiv(a, b) ==
    CHOOSE r \in { RatNorm([s |-> x.n.s * y.n.s, m |-> NatMul(x.n.m, y.d)],
                           NatMul(x.d, y.n.m)) : x \in {a}, y \in {b} } : TRUE

RatSign(x) == x.n.s

\* -1, 0, 1 as x < y, x = y, x > y (cross-multiplication; the denominators are positive)
RatCmp(a, b) ==
    CHOOSE r \in { IF x.n.s # y.n.s THEN (IF x.n.s < y.n.s THEN -1 ELSE 1)
                   ELSE IF x.n.s = 0 THEN 0
                   ELSE x.n.s * NatCmp(NatMul(x.n.m, y.d), NatMul(y.n.m, x.d)) :
                   x \in {a}, y \in {b} } : TRUE

RatLT(x, y) == RatCmp(x, y) < 0

RatLE(x, y) == RatCmp(x, y) <= 0

RatEq(x, y) == RatCmp(x, y) = 0

RatAbs(x) == IF RatSign(x) < 0 THEN RatNeg(x) ELSE x

-----------------------------------------------------------------------------
(* Reward / scoring (sim_inference.py, section 3).                          *)

\* a slip: the weights are normalised to sum 1 and the factor 1.6 is left out
adaptive_weights_unit_sum(weather, fuel) ==
    LET w_d == RatAdd(Rat(5, 10), RatMul(Rat(3, 10), RatSub(Rat(1, 1), weather)))
        w_p == RatSub(Rat(6, 10), RatMul(Rat(3, 10), RatSub(fuel, Rat(1, 1))))
        w_c == RatAdd(Rat(3, 10), RatMul(Rat(2, 10), RatSub(fuel, Rat(1, 1))))
        w_u == RatAdd(Rat(2, 10), RatMul(Rat(1, 10), RatSub(Rat(1, 1), weather)))
        s   == RatAdd(RatAdd(RatAdd(RatAdd(w_d, w_p), w_c), w_u), Rat(1, 100000000))
    IN  << RatDiv(w_d, s), RatDiv(w_p, s), RatDiv(w_c, s), RatDiv(w_u, s) >>

\* adaptive_weights(weather, fuel): the tuple (wd, wp, wc, wu)
adaptive_weights(weather, fuel) ==
    LET w_d == RatAdd(Rat(5, 10), RatMul(Rat(3, 10), RatSub(Rat(1, 1), weather)))
        w_p == RatSub(Rat(6, 10), RatMul(Rat(3, 10), RatSub(fuel, Rat(1, 1))))
        w_c == RatAdd(Rat(3, 10), RatMul(Rat(2, 10), RatSub(fuel, Rat(1, 1))))
        w_u == RatAdd(Rat(2, 10), RatMul(Rat(1, 10), RatSub(Rat(1, 1), weather)))
        s   == RatAdd(RatAdd(RatAdd(RatAdd(w_d, w_p), w_c), w_u), Rat(1, 100000000))
    IN  << RatMul(RatDiv(w_d, s), Rat(16, 10)),
           RatMul(RatDiv(w_p, s), Rat(16, 10)),
           RatMul(RatDiv(w_c, s), Rat(16, 10)),
           RatMul(RatDiv(w_u, s), Rat(16, 10)) >>

\* a slip: the delay is used unclipped
NoClip(d) == d

\* np.clip(d, 0, None)
ClipLow0(d) == IF RatSign(d) < 0 THEN Rat(0, 1) ELSE d

\* a slip: the uncertainty term is added, not subtracted
compute_reward_unc_added(outcome_orig, std_rescaled, weights) ==
    LET delay_scale  == Rat(10, 1)
        profit_scale == Rat(200, 1)
        co2_scale    == Rat(5000, 1)
        r_delay  == RatDiv(Rat(1, 1),
                           RatAdd(Rat(1, 1), RatDiv(ClipLow0(outcome_orig[1]), delay_scale)))
        r_profit == RatDiv(outcome_orig[2], RatAdd(profit_scale, Rat(1, 1000000)))
        r_co2    == RatNeg(RatDiv(outcome_orig[3], RatAdd(co2_scale, Rat(1, 1000000))))
        unc      == RatAdd(RatAdd(RatDiv(std_rescaled[1], delay_scale),
                                  RatDiv(std_rescaled[2], profit_scale)),
                           RatDiv(std_rescaled[3], co2_scale))
    IN  RatAdd(RatAdd(RatAdd(RatMul(weights[1], r_delay), RatMul(weights[2], r_profit)),
                      RatMul(weights[3], r_co2)),
               RatMul(weights[4], unc))

\* compute_reward(outcome_orig, std_rescaled, weights) for the one row of the batch
compute_reward(outcome_orig, std_rescaled, weights) ==
    LET delay_scale  == Rat(10, 1)
        profit_scale == Rat(200, 1)
        co2_scale    == Rat(5000, 1)
        wd == weights[1]
        wp == weights[2]
        wc == weights[3]
        wu == weights[4]
        d  == outcome_orig[1]
        p  == outcome_orig[2]
        c  == outcome_orig[3]
        sd == std_rescaled[1]
        sp == std_rescaled[2]
        sc == std_rescaled[3]
        r_delay  == RatDiv(Rat(1, 1), RatAdd(Rat(1, 1), RatDiv(ClipLow0(d), delay_scale)))
        r_profit == RatDiv(p, RatAdd(profit_scale, Rat(1, 1000000)))
        r_co2    == RatNeg(RatDiv(c, RatAdd(co2_scale, Rat(1, 1000000))))
        unc      == RatAdd(RatAdd(RatDiv(sd, delay_scale), RatDiv(sp, profit_scale)),
                           RatDiv(sc, co2_scale))
    IN  RatSub(RatAdd(RatAdd(RatMul(wd, r_delay), RatMul(wp, r_profit)),
                      RatMul(wc, r_co2)),
               RatMul(wu, unc))

-----------------------------------------------------------------------------
(* Bounds and input sets.                                                   *)

\* worker threads of the serving layer that run infer_live concurrently
NumReq == 2

\* infer_live calls begun over the run
MaxCalls == 3

Reqs == 1..NumReq

\* request payloads: order city/country and customer city/country
OrderCities == {"Hyderabad"}

CustomerCities == {"Lucknow", "Pune"}

Countries == {"India"}

\* what the routing service may answer for a route: (metres, seconds)
LiveAnswers == { << 1200000, 54000 >>, << 800500, 36000 >> }

\* samples of np.random.uniform(300, 1500), (5, 25) and (50, 80): low end and near the high end
UniformKm == {300, 1499}

UniformHr == {5}

UniformSpeed == {50, 79}

-----------------------------------------------------------------------------
(* Module load: sections "Config / Paths" and 4 of sim_inference.py.        *)

CKPTS == << "models/sim_v40_seed0.pth", "models/sim_v40_seed1.pth", "models/sim_v40_seed2.pth" >>

BEST_ACTOR == "models/actor_best_v40.pth"

DefaultModes == << "Standard", "Air", "Ship", "Rail" >>

\* mode lists a checkpoint may carry in ck['modes']
ModeLists == { DefaultModes, << "Standard", "Air", "Ship" >>, << "Standard", "Air" >> }

\* what may be found at a checkpoint path: no file; a file that torch.load,
\* load_state_dict (architecture mismatch) or a ck[...] lookup rejects; or a
\* checkpoint that loads, with its scalers and its mode list
CkptFiles ==
    { [kind |-> "missing", modes |-> << >>], [kind |-> "unloadable", modes |-> << >>] }
    \cup [kind : {"checkpoint"}, modes : ModeLists]

\* what may be found at BEST_ACTOR
ActorFiles == {"missing", "unloadable", "state_dict"}

\* a slip: the failure is logged and the load goes on to serve
LogAndServe ==
    /\ phase' = "serving"
    /\ load_failed' = TRUE
    /\ UNCHANGED << ensemble_sims, actor, N_MODES, modes, saved_scaler >>

\* exit(): SystemExit is no Exception, so the except clause does not catch
\* it and the import of sim_inference (hence of main) ends the process
Exit ==
    /\ phase' = "exited"
    /\ load_failed' = TRUE
    /\ UNCHANGED << ensemble_sims, actor, N_MODES, modes, saved_scaler >>

\* one iteration of "for p in CKPTS" for the file found at CKPTS[i]
LoadCheckpointFile(i, ck) ==
    IF ck.kind = "missing" THEN Exit
    ELSE IF ck.kind = "unloadable" THEN Exit
    ELSE /\ ensemble_sims' = Append(ensemble_sims, CKPTS[i])
         \* 'sx_mean' is never a module-level name: the test is true every time
         /\ saved_scaler' = i
         /\ modes' = ck.modes
         /\ N_MODES' = Len(ck.modes)
         /\ UNCHANGED << phase, actor, load_failed >>

LoadCheckpoint ==
    /\ phase = "loading"
    /\ Len(ensemble_sims) < Len(CKPTS)
    /\ \E ck \in CkptFiles : LoadCheckpointFile(Len(ensemble_sims) + 1, ck)
    /\ UNCHANGED << configVars, calls, cacheVars, req, loop >>

LoadActorFile(af) ==
    IF af = "missing" THEN Exit
    ELSE IF af = "unloadable" THEN Exit
    ELSE /\ actor' = [n_actions |-> N_MODES]
         /\ phase' = "serving"
         /\ UNCHANGED << ensemble_sims, N_MODES, modes, saved_scaler, load_failed >>

LoadActor ==
    /\ phase = "loading"
    /\ Len(ensemble_sims) = Len(CKPTS)
    /\ \E af \in ActorFiles : LoadActorFile(af)
    /\ UNCHANGED << configVars, calls, cacheVars, req, loop >>

-----------------------------------------------------------------------------
(* The distance cache file and fetch_distance_cached.                       *)

\* strings pandas.read_csv turns into NaN in a string column
PandasNaStrings == {"", "NA", "N/A", "NaN", "nan", "null", "NULL", "None", "n/a", "<NA>", "#N/A"}

\* DataFrame.to_csv(CACHE_FILE, index=False): the rows as text fields; a float
\* is written with the shortest digits that read back to that float
to_csv(frame) == [state |-> "written", rows |-> frame]

\* pd.read_csv(CACHE_FILE): the key columns come back as strings, except the
\* NA spellings, which come back as NaN and equal no string
read_csv(file) ==
    [i \in DOMAIN file.rows |->
        [file.rows[i] EXCEPT !.orig = IF @ \in PandasNaStrings THEN "\\NaN" ELSE @,
                        !.dest = IF @ \in PandasNaStrings THEN "\\NaN" ELSE @]]

\* cache[(cache.orig == orig) & (cache.dest == dest)]
Found(cache, orig, dest) ==
    SelectSeq(cache, LAMBDA r : r.orig = orig /\ r.dest = dest)

NoFile == [state |-> "absent", rows |-> << >>]

Truncated == [state |-> "truncated", rows |-> << >>]

RowsOf(file) == {file.rows[i] : i \in DOMAIN file.rows}

\* a worker thread that runs no call
IdleReq ==
    [pc |-> "idle", orig |-> "", dest |-> "", cache |-> << >>,
     km |-> Rat(0, 1), dur |-> Rat(0, 1), path |-> "none", net |-> 0,
     prior |-> {}, ws |-> Rat(0, 1), fi |-> Rat(0, 1)]

\* the fields of a call that describe its fetch_distance_cached call; they are
\* kept while that call runs and in the state it returns to
NoFetch(r) ==
    [r EXCEPT !.cache = << >>, !.km = Rat(0, 1), !.dur = Rat(0, 1), !.path = "none",
              !.net = 0, !.prior = {}]

\* fetch_distance_cached returns (km, dur) by way of `path'; infer_live goes on
\* to get_weather_score
DistanceReturns(p, km, dur, path) ==
    req' = [req EXCEPT ![p].pc = "weather", ![p].km = km, ![p].dur = dur,
                       ![p].path = path, ![p].cache = << >>]

\* main.py infer_live_api -> infer_live: the call starts and builds the two
\* place strings it passes to fetch_distance_cached
Begin(p) ==
    /\ phase = "serving"
    /\ req[p].pc = "idle"
    /\ calls < MaxCalls
    /\ calls' = calls + 1
    /\ \E oc \in OrderCities, cc \in CustomerCities, oco \in Countries, cco \in Countries :
          LET orig == oc \o "," \o oco
              dest == cc \o "," \o cco
          IN  req' = [req EXCEPT ![p] =
                        [IdleReq EXCEPT !.pc = "read", !.orig = orig, !.dest = dest,
                                        !.prior = {t \in liveDone :
                                                     t.orig = orig /\ t.dest = dest}]]
    /\ UNCHANGED << startupVars, configVars, cacheVars, loop >>

\* lines 94-109: read the cache file, look the route up, test the API key
ReadCache(p) ==
    /\ req[p].pc = "read"
    /\ IF cacheFile.state = "truncated"
       THEN \* a zero-byte file: read_csv raises EmptyDataError, outside any try
            req' = [req EXCEPT ![p].pc = "failed"]
       ELSE LET cache == IF cacheFile.state = "absent" THEN << >> ELSE read_csv(cacheFile)
                found == Found(cache, req[p].orig, req[p].dest)
            IN  IF found # << >>
                THEN DistanceReturns(p, found[1].distance_km, found[1].duration_hr, "hit")
                ELSE IF mapbox_key = "" \/ mapbox_key = "pk.YOUR_DEFAULT_PUBLIC_TOKEN_HERE"
                THEN \E km \in UniformKm, hr \in UniformHr :
                        DistanceReturns(p, Rat(km, 1), Rat(hr, 1), "fallback_key")
                ELSE req' = [req EXCEPT ![p].pc = "geocode", ![p].cache = cache]
    /\ UNCHANGED << startupVars, configVars, calls, cacheVars, loop >>

\* _get_mapbox_coords: the coordinate string, or None on any exception
\* (network error, no 'features', empty list)
GeocodeResults == {"lon,lat", "None"}

\* lines 111-117: geocode both places (two network calls), fall back if either failed
Geocode(p) ==
    /\ req[p].pc = "geocode"
    /\ \E orig_coords \in GeocodeResults, dest_coords \in GeocodeResults :
          IF orig_coords = "None" \/ dest_coords = "None"
          THEN \E km \in UniformKm, hr \in UniformHr :
                  req' = [req EXCEPT ![p].pc = "weather", ![p].km = Rat(km, 1),
                                     ![p].dur = Rat(hr, 1), ![p].path = "fallback_geocode",
                                     ![p].cache = << >>, ![p].net = @ + 2]
          ELSE req' = [req EXCEPT ![p].pc = "matrix", ![p].net = @ + 2]
    /\ UNCHANGED << startupVars, configVars, calls, cacheVars, loop >>

\* lines 151-157: the fallback after the except clause
MatrixFallback(p) ==
    \E km \in UniformKm, speed \in UniformSpeed :
        LET dist_fallback == Rat(km, 1)
            dur_fallback  == RatDiv(dist_fallback, Rat(speed, 1))
        IN  req' = [req EXCEPT ![p].pc = "weather", ![p].km = dist_fallback,
                               ![p].dur = dur_fallback, ![p].path = "fallback_matrix",
                               ![p].cache = << >>, ![p].net = @ + 1]

\* lines 130-147: the Matrix API call and the opening of the cache file for writing
Matrix(p) ==
    /\ req[p].pc = "matrix"
    /\ \/ \* requests.get or .json() raises, code # 'Ok', or 'distances'/'durations'
          \* missing or null: all end in the except clause
          /\ MatrixFallback(p)
          /\ UNCHANGED cacheVars
       \/ \* the answer is good but CACHE_FILE cannot be opened for writing
          /\ MatrixFallback(p)
          /\ UNCHANGED cacheVars
       \/ \* the answer is good and to_csv opens CACHE_FILE with mode "w", but the
          \* write raises (disk full, I/O error): the file stays as opened, zero
          \* bytes, and the except clause leads to the fallback
          /\ MatrixFallback(p)
          /\ cacheFile' = Truncated
          /\ UNCHANGED liveDone
       \/ \* the answer is good; to_csv opens CACHE_FILE with mode "w"
          /\ \E ans \in LiveAnswers :
                LET dist_km   == Rat(ans[1], 1000)
                    dur_hours == Rat(ans[2], 3600)
                    new_row   == [orig |-> req[p].orig, dest |-> req[p].dest,
                                  distance_km |-> dist_km, duration_hr |-> dur_hours]
                IN  req' = [req EXCEPT ![p].pc = "write", ![p].km = dist_km,
                                       ![p].dur = dur_hours,
                                       ![p].cache = Append(req[p].cache, new_row),
                                       ![p].net = @ + 1]
          /\ cacheFile' = Truncated
          /\ UNCHANGED liveDone
    /\ UNCHANGED << startupVars, configVars, calls, loop >>

\* lines 147-149: to_csv writes the frame and closes the file; the call returns
WriteCache(p) ==
    /\ req[p].pc = "write"
    /\ cacheFile' = to_csv(req[p].cache)
    /\ liveDone' = liveDone \cup {req[p].cache[Len(req[p].cache)]}
    /\ DistanceReturns(p, req[p].km, req[p].dur, "live")
    /\ UNCHANGED << startupVars, configVars, calls, loop >>

-----------------------------------------------------------------------------
(* get_weather_score and get_fuel_index.                                    *)

\* np.clip(x, lo, hi)
Clip(x, lo, hi) == IF RatLT(x, lo) THEN lo ELSE IF RatLT(hi, x) THEN hi ELSE x

\* values of 1.0 - tanh(|temp - 20| / 20) * 0.6 - tanh(wind / 20) * 0.4: the
\* transform is not computed; it lies in (0, 1.4), above 1 for a negative wind
WeatherRawScores == { Rat(12, 10) }

\* samples of np.random.uniform(0.5, 1.0)
UniformWeather == { Rat(5, 10) }

\* get_weather_score(lat, lon): the value it returns
WeatherScores ==
    \* the call succeeded: score clipped to [0, 1]
    { Clip(score, Rat(0, 1), Rat(1, 1)) : score \in WeatherRawScores }
    \* requests.get/.json() raised, or the answer was no dict of numbers: except clause
    \cup UniformWeather

Weather(p) ==
    /\ req[p].pc = "weather"
    /\ \E ws \in WeatherScores :
          req' = [req EXCEPT ![p] = [NoFetch(@) EXCEPT !.pc = "fuel", !.ws = ws]]
    /\ UNCHANGED << startupVars, configVars, calls, cacheVars, loop >>

\* WTI prices the EIA API may report, and prices 70 + randn() * 2 of the simulation
LivePrices == {120}

SimulatedPrices == {68}

\* samples of np.random.uniform(0.95, 1.05)
UniformFuel == { Rat(95, 100) }

\* float(np.clip(1.0 + (price - 70.0) / 200.0, 0.9, 1.1))
FuelIndexOf(price) ==
    Clip(RatAdd(Rat(1, 1), RatDiv(Rat(price - 70, 1), Rat(200, 1))), Rat(9, 10), Rat(11, 10))

\* os.getenv("EIA_API_KEY", <built-in key>), read on every call
EiaKeys == {"key", ""}

\* get_fuel_index(): the value it returns
FuelIndexes(EIA_API_KEY) ==
    IF EIA_API_KEY # "" /\ EIA_API_KEY # "YOUR_FREE_EIA_KEY_HERE"
    THEN \* the live call answered with data
         { FuelIndexOf(price) : price \in LivePrices }
         \* it raised, or the answer had no data (raise Exception): except clause
         \cup UniformFuel
    ELSE { FuelIndexOf(price) : price \in SimulatedPrices }

Fuel(p) ==
    /\ req[p].pc = "fuel"
    /\ \E EIA_API_KEY \in EiaKeys : \E fi \in FuelIndexes(EIA_API_KEY) :
          req' = [req EXCEPT ![p].pc = "score", ![p].fi = fi]
    /\ UNCHANGED << startupVars, configVars, calls, cacheVars, loop >>

-----------------------------------------------------------------------------
(* infer_live, steps 5 and 6: the mode loop and the actor.                  *)

\* what env_step_sample may return for one mode: (mu_rescaled, std_rescaled)
\* of the dropout ensemble, as (delay, profit, co2) triples
SimOutputs ==
    { [mu |-> << Rat(m[1], 1), Rat(150, 1), Rat(2000, 1) >>,
       std |-> << Rat(m[2], 1), Rat(m[3], 1), Rat(100, 1) >>] :
         m \in { << 0, 2, 20 >>, << 0, 3, 20 >>, << 0, 1, 200 >>,
                 << -5, 2, 20 >>, << 5, 2, 20 >> } }

\* float('inf') negated: below every score
NegInf == [n |-> ZOfInt(-1), d |-> << >>]

\* a slip: score >= best_score, the last mode reaching a score wins ties
ScoreGE(score, best_score) == IF best_score = NegInf THEN TRUE ELSE RatLE(best_score, score)

\* score > best_score
ScoreGT(score, best_score) == IF best_score = NegInf THEN TRUE ELSE RatLT(best_score, score)

IdleLoop ==
    [i |-> 0, best_mode |-> "None", best_score |-> NegInf, per_mode_results |-> << >>,
     live_weights |-> << >>, actor_policy_choice |-> "None"]

\* lines 446-452: best_mode, best_score, per_mode_results, live_weights
StartLoop(p) ==
    /\ req[p].pc = "score"
    /\ req' = [req EXCEPT ![p].pc = "modes"]
    /\ loop' = [loop EXCEPT ![p] =
                  [IdleLoop EXCEPT !.live_weights = adaptive_weights(req[p].ws, req[p].fi)]]
    /\ UNCHANGED << startupVars, configVars, calls, cacheVars >>

\* lines 455-478: one iteration of "for i, m in enumerate(modes)"
EvalMode(p) ==
    /\ req[p].pc = "modes"
    /\ loop[p].i < Len(modes)
    /\ \E out \in SimOutputs :
          LET m           == modes[loop[p].i + 1]
              mu_rescaled == out.mu
              std_rescaled == out.std
              score       == compute_reward(mu_rescaled, std_rescaled, loop[p].live_weights)
              result      == [mode |-> m, score |-> score,
                              pred_delay |-> mu_rescaled[1], std_delay |-> std_rescaled[1],
                              pred_profit |-> mu_rescaled[2], std_profit |-> std_rescaled[2],
                              pred_co2 |-> mu_rescaled[3], std_co2 |-> std_rescaled[3]]
              better      == ScoreGT(score, loop[p].best_score)
          IN  loop' = [loop EXCEPT
                         ![p].i = @ + 1,
                         ![p].per_mode_results = Append(@, result),
                         ![p].best_score = IF better THEN score ELSE @,
                         ![p].best_mode = IF better THEN m ELSE @]
    /\ UNCHANGED << startupVars, configVars, calls, cacheVars, req >>

\* lines 480-499: the actor's argmax over its n_actions outputs, and the return
FinishInference(p) ==
    /\ req[p].pc = "modes"
    /\ loop[p].i = Len(modes)
    /\ \E a \in 1..actor.n_actions :
          loop' = [loop EXCEPT ![p].actor_policy_choice = modes[a]]
    /\ req' = [req EXCEPT ![p].pc = "done"]
    /\ UNCHANGED << startupVars, configVars, calls, cacheVars >>

\* the dictionary infer_live returns
Response(p) ==
    [best_mode_by_score |-> loop[p].best_mode,
     best_score |-> loop[p].best_score,
     actor_policy_choice |-> loop[p].actor_policy_choice,
     per_mode_analysis |-> loop[p].per_mode_results,
     live_features |-> [ws |-> req[p].ws, fi |-> req[p].fi],
     live_weights |-> loop[p].live_weights]

-----------------------------------------------------------------------------
(* The service: module load, then concurrent infer_live calls.              *)

\* MAPBOX_API_KEY as deployed: a token, nothing, or the placeholder
MapboxKeys == {"pk.token", "", "pk.YOUR_DEFAULT_PUBLIC_TOKEN_HERE"}

\* steps 2-6 of infer_live read the loaded models and write nothing shared;
\* SpecScore follows them. The response is returned and the thread is free.
Respond(p) ==
    /\ req[p].pc = "score"
    /\ req' = [req EXCEPT ![p] = IdleReq]
    /\ UNCHANGED << startupVars, configVars, calls, cacheVars, loop >>

\* the exception leaves infer_live_api: the caller gets an error response
Abort(p) ==
    /\ req[p].pc = "failed"
    /\ req' = [req EXCEPT ![p] = IdleReq]
    /\ UNCHANGED << startupVars, configVars, calls, cacheVars, loop >>

Init ==
    /\ phase = "loading"
    /\ ensemble_sims = << >>
    /\ actor = [n_actions |-> 0]
    /\ N_MODES = 4
    /\ modes = DefaultModes
    /\ saved_scaler = 0
    /\ load_failed = FALSE
    /\ mapbox_key \in MapboxKeys
    /\ calls = 0
    /\ cacheFile = NoFile
    /\ liveDone = {}
    /\ req = [p \in Reqs |-> IdleReq]
    /\ loop = [p \in Reqs |-> IdleLoop]

Next ==
    \/ LoadCheckpoint
    \/ LoadActor
    \/ \E p \in Reqs :
          \/ Begin(p)
          \/ ReadCache(p)
          \/ Geocode(p)
          \/ Matrix(p)
          \/ WriteCache(p)
          \/ Weather(p)
          \/ Fuel(p)
          \/ Respond(p)
          \/ Abort(p)

Spec == Init /\ [][Next]_vars


-----------------------------------------------------------------------------
(* Module load and the admission of calls.                                  *)

NextStartup ==
    \/ LoadCheckpoint
    \/ LoadActor
    \/ \E p \in Reqs : Begin(p)

SpecStartup == Init /\ [][NextStartup]_vars

-----------------------------------------------------------------------------
(* One call's scoring: steps 5 and 6 of infer_live.                         *)

\* longest mode list the scoring runs start from
MaxModes == 3

\* the service after a clean module load with mode list ms, call 1 having
\* got its live features (weather ws, fuel fi) and standing before step 5
ScoringState(ms, ws, fi) ==
    /\ phase = "serving"
    /\ ensemble_sims = CKPTS
    /\ modes = ms
    /\ N_MODES = Len(ms)
    /\ actor = [n_actions |-> Len(ms)]
    /\ saved_scaler = Len(CKPTS)
    /\ load_failed = FALSE
    /\ mapbox_key = "pk.token"
    /\ calls = 1
    /\ cacheFile = NoFile
    /\ liveDone = {}
    /\ req = [p \in Reqs |->
                IF p = 1
                THEN [IdleReq EXCEPT !.pc = "score", !.orig = "Hyderabad,India",
                                     !.dest = "Pune,India", !.ws = ws, !.fi = fi]
                ELSE IdleReq]
    /\ loop = [p \in Reqs |-> IdleLoop]

InitScore ==
    \E ms \in {m \in ModeLists : Len(m) <= MaxModes} :
        \E ws \in WeatherScores, fi \in FuelIndexes("") : ScoringState(ms, ws, fi)

NextScore ==
    \E p \in Reqs :
        \/ StartLoop(p)
        \/ EvalMode(p)
        \/ FinishInference(p)

SpecScore == InitScore /\ [][NextScore]_vars

-----------------------------------------------------------------------------
(* adaptive_weights over its domain: weather in [0, 1], fuel in [0.9, 1.1]. *)

\* grid steps over the two intervals
WeatherSteps == 10

FuelSteps == 20

WeatherGrid == { Rat(k, WeatherSteps) : k \in 0..WeatherSteps }

FuelGrid == { Rat(9 * FuelSteps + 2 * j, 10 * FuelSteps) : j \in 0..FuelSteps }

InitWeights ==
    \E ws \in WeatherGrid, fi \in FuelGrid : ScoringState(DefaultModes, ws, fi)

NextWeights == \E p \in Reqs : StartLoop(p)

SpecWeights == InitWeights /\ [][NextWeights]_vars

-----------------------------------------------------------------------------
(* Properties.                                                              *)

\* order of two scores; equal values need no arithmetic
ScoreCmp(a, b) == IF a = b THEN 0 ELSE RatCmp(a, b)

\* C1: in every response, best_score is the maximum of the scores in
\* per_mode_analysis and best_mode_by_score is the first mode, in list order,
\* that attains it: every earlier mode scores strictly less, no mode scores more.
BestIsFirstMaximum ==
    \A p \in Reqs :
        req[p].pc = "done" =>
            LET r == Response(p).per_mode_analysis
                b == Response(p).best_score
            IN  \E i \in DOMAIN r :
                    /\ r[i].mode = Response(p).best_mode_by_score
                    /\ r[i].score = b
                    /\ \A j \in DOMAIN r :
                          LET c == ScoreCmp(r[j].score, b)
                          IN  c <= 0 /\ (j < i => c < 0)

\* a response in which a later mode ties the maximum and the earlier one is kept
TieKeepsEarlierMode ==
    \E p \in Reqs :
        /\ req[p].pc = "done"
        /\ \E i, j \in DOMAIN loop[p].per_mode_results :
              /\ i < j
              /\ loop[p].per_mode_results[i].score = loop[p].best_score
              /\ loop[p].per_mode_results[j].score = loop[p].best_score
              /\ loop[p].per_mode_results[i].mode = loop[p].best_mode


\* the four weights of a call whose mode loop has started
LiveWeights(p) == loop[p].live_weights

\* C5: for weather in [0, 1] and fuel in [0.9, 1.1] the four weights that
\* adaptive_weights returns are each non-negative and sum to within 1e-6 of 1.6.
WeightsNormalized ==
    \A p \in Reqs :
        req[p].pc = "modes" =>
            LET w     == LiveWeights(p)
                total == RatAdd(RatAdd(RatAdd(w[1], w[2]), w[3]), w[4])
            IN  /\ \A k \in 1..4 : RatSign(w[k]) >= 0
                /\ RatLE(RatAbs(RatSub(total, Rat(16, 10))), Rat(1, 1000000))

\* weights were computed at a corner of the domain: weather 0 and fuel 1.1
WeightsAtCorner ==
    \E p \in Reqs :
        /\ req[p].pc = "modes"
        /\ req[p].ws = Rat(0, 1)
        /\ req[p].fi = Rat(11, 10)
        /\ Len(LiveWeights(p)) = 4

\* two results of one call that differ in the predicted delay only, the
\* delay of result i below that of result j
DelayOnlyDiffers(r, i, j) ==
    /\ r[i].pred_profit = r[j].pred_profit
    /\ r[i].pred_co2 = r[j].pred_co2
    /\ r[i].std_delay = r[j].std_delay
    /\ r[i].std_profit = r[j].std_profit
    /\ r[i].std_co2 = r[j].std_co2
    /\ RatLT(r[i].pred_delay, r[j].pred_delay)

\* C6 as stated: with everything but the predicted delay fixed, the score at
\* the higher delay is strictly lower, whatever the sign of the delays.
ScoreStrictlyDecreasingInDelay ==
    \A p \in Reqs :
        \A i, j \in DOMAIN loop[p].per_mode_results :
            LET r == loop[p].per_mode_results
            IN  DelayOnlyDiffers(r, i, j) => ScoreCmp(r[j].score, r[i].score) < 0

\* C6: with everything but the predicted delay fixed, the score at the
\* higher delay d2 is strictly lower when d2 > 0 and is the same when d2 <= 0
\* (delays below zero are scored as zero).
ScoreDecreasingInClippedDelay ==
    \A p \in Reqs :
        \A i, j \in DOMAIN loop[p].per_mode_results :
            LET r == loop[p].per_mode_results
            IN  DelayOnlyDiffers(r, i, j) =>
                    IF RatSign(r[j].pred_delay) > 0
                    THEN ScoreCmp(r[j].score, r[i].score) < 0
                    ELSE ScoreCmp(r[j].score, r[i].score) = 0

\* one call scored a negative delay, delay zero and a positive delay with
\* everything else equal
DelaysOfBothSignsScored ==
    \E p \in Reqs :
        \E i, j, k \in DOMAIN loop[p].per_mode_results :
            LET r == loop[p].per_mode_results
            IN  /\ DelayOnlyDiffers(r, i, j)
                /\ DelayOnlyDiffers(r, j, k)
                /\ RatSign(r[i].pred_delay) < 0
                /\ RatSign(r[j].pred_delay) = 0

\* every mode of the response has the same predicted mean outcome
EqualMeans(r) ==
    \A i \in DOMAIN r :
        /\ r[i].pred_delay = r[1].pred_delay
        /\ r[i].pred_profit = r[1].pred_profit
        /\ r[i].pred_co2 = r[1].pred_co2

\* every mode of the response has the same profit and CO2 standard deviation
EqualProfitCo2Std(r) ==
    \A i \in DOMAIN r :
        /\ r[i].std_profit = r[1].std_profit
        /\ r[i].std_co2 = r[1].std_co2

\* the index of the mode the response names as best
BestIndex(p) ==
    CHOOSE i \in DOMAIN loop[p].per_mode_results :
        loop[p].per_mode_results[i].mode = Response(p).best_mode_by_score

\* C7 as stated: when all modes have the same predicted means, the best mode
\* has the lowest delay standard deviation, whatever the other deviations are.
LowestDelayStdWins ==
    \A p \in Reqs :
        (req[p].pc = "done" /\ EqualMeans(Response(p).per_mode_analysis)) =>
            LET r == Response(p).per_mode_analysis
            IN  \A j \in DOMAIN r : RatLE(r[BestIndex(p)].std_delay, r[j].std_delay)

\* the combined uncertainty of a result: sd / 10 + sp / 200 + sc / 5000
Uncertainty(x) ==
    RatAdd(RatAdd(RatDiv(x.std_delay, Rat(10, 1)), RatDiv(x.std_profit, Rat(200, 1))),
           RatDiv(x.std_co2, Rat(5000, 1)))

\* C7: when all modes have the same predicted means, the best mode is the
\* first mode with the lowest combined uncertainty sd/10 + sp/200 + sc/5000;
\* when the profit and CO2 standard deviations are the same too, it is the
\* first mode with the lowest delay standard deviation.
LowestUncertaintyWins ==
    \A p \in Reqs :
        (req[p].pc = "done" /\ EqualMeans(Response(p).per_mode_analysis)) =>
            LET r == Response(p).per_mode_analysis
                b == BestIndex(p)
            IN  \A j \in DOMAIN r :
                    /\ LET c == RatCmp(Uncertainty(r[b]), Uncertainty(r[j]))
                       IN  c <= 0 /\ (j < b => c < 0)
                    /\ EqualProfitCo2Std(r) =>
                          /\ RatLE(r[b].std_delay, r[j].std_delay)
                          /\ j < b => RatLT(r[b].std_delay, r[j].std_delay)

\* a response with equal means and equal profit and CO2 deviations in which
\* a mode other than the first has the lowest delay deviation and is best
LaterModeWithLowestDelayStdWins ==
    \E p \in Reqs :
        /\ req[p].pc = "done"
        /\ EqualMeans(Response(p).per_mode_analysis)
        /\ EqualProfitCo2Std(Response(p).per_mode_analysis)
        /\ BestIndex(p) > 1
        /\ RatLT(loop[p].per_mode_results[BestIndex(p)].std_delay,
                 loop[p].per_mode_results[1].std_delay)


\* the threads whose fetch_distance_cached call has just returned
Returned == {p \in Reqs : req[p].pc = "weather"}

\* C2: a call that began after a call for the same route had succeeded
\* through the live lookup returns the pair of such an earlier call and makes
\* no geocoding or routing network call.
CacheIdempotence ==
    \A p \in Returned :
        req[p].prior # {} =>
            /\ req[p].net = 0
            /\ \E t \in req[p].prior :
                  t.distance_km = req[p].km /\ t.duration_hr = req[p].dur

FallbackPaths == {"fallback_key", "fallback_geocode", "fallback_matrix"}

\* C3: a fallback value returned by fetch_distance_cached has its distance in
\* [300, 1500] km and its duration in [5, 25] hr, on every fallback path.
FallbackBounds ==
    \A p \in Returned :
        req[p].path \in FallbackPaths =>
            /\ RatLE(Rat(300, 1), req[p].km) /\ RatLE(req[p].km, Rat(1500, 1))
            /\ RatLE(Rat(5, 1), req[p].dur) /\ RatLE(req[p].dur, Rat(25, 1))

\* C4: no step of the three feature providers lets an exception reach the
\* caller: no call is ever ended by one.
ProvidersInfallible == \A p \in Reqs : req[p].pc # "failed"

\* C8: a row that a completed write has put in the cache file is in the file
\* whenever the file is complete (no write is under way).
CacheAppendOnly ==
    cacheFile.state = "written" => liveDone \subseteq RowsOf(cacheFile)

\* C9: a failed load of a checkpoint or of the actor ends the process, and a
\* call of infer_live runs only with the three simulators and the actor loaded.
StartupFatal ==
    /\ load_failed => phase = "exited"
    /\ phase = "exited" => \A p \in Reqs : req[p].pc = "idle"
    /\ \A p \in Reqs :
          req[p].pc # "idle" =>
              /\ phase = "serving"
              /\ ensemble_sims = CKPTS
              /\ actor.n_actions > 0

\* the third checkpoint failed to load after two had loaded: the process is gone
ExitedOnThirdCheckpoint ==
    /\ phase = "exited"
    /\ load_failed
    /\ Len(ensemble_sims) = 2
    /\ \A p \in Reqs : req[p].pc = "idle"

\* the rows of the file for the route of thread p
RouteRows(p) ==
    {i \in DOMAIN cacheFile.rows :
        cacheFile.rows[i].orig = req[p].orig /\ cacheFile.rows[i].dest = req[p].dest}

\* C10: when two concurrent calls for one route have both answered through
\* the live lookup and written the file, the file holds two rows for the route.
ConcurrentMissesLeaveTwoRows ==
    \A p, q \in Returned :
        ( /\ p # q
          /\ req[p].path = "live" /\ req[q].path = "live"
          /\ req[p].orig = req[q].orig /\ req[p].dest = req[q].dest
          /\ req[p].prior = {} /\ req[q].prior = {}
          /\ cacheFile.state = "written" ) =>
            Cardinality(RouteRows(p)) >= 2


\* C11: the scaler parameters and the mode list are assigned once, from the
\* first checkpoint loaded, and no later step (the loading of a later
\* checkpoint, a call of infer_live) assigns them again.
ScalersAssignedOnce ==
    /\ [](saved_scaler \in {0, 1})
    /\ [][saved_scaler # 0 =>
            /\ saved_scaler' = saved_scaler
            /\ modes' = modes
            /\ N_MODES' = N_MODES]_vars

\* thread p's fetch_distance_cached call returns in this step
ReturnsNow(p) == req[p].pc # "weather" /\ req'[p].pc = "weather"

\* C12: a fallback result is never cached: the rows of the file are rows of
\* successful live lookups, and a step in which a call returns a cache hit
\* or a fallback value leaves the cache file as it was.
FallbackNeverCached ==
    /\ [](RowsOf(cacheFile) \subseteq liveDone)
    /\ [][\A p \in Reqs :
            (ReturnsNow(p) /\ req'[p].path \in FallbackPaths \cup {"hit"}) =>
                cacheFile' = cacheFile]_vars

=============================================================================
